---- MODULE Spec2Model ----
(***************************************************************************)
(* Change-detection engine of the Incheon cargo schedule checker           *)
(* (src/hourly_check.py): the value normalizer, the change classifier      *)
(* compare_data, the two cache files and one check cycle of main.          *)
(*                                                                         *)
(* Python values are modelled as strings.  The Japanese dictionary keys    *)
(* and literals of the source are written in ASCII:                        *)
(*   "flight"      the flight-number column        (hourly_check.py:204)   *)
(*   "date"        the retrieval-date column       (hourly_check.py:205)   *)
(*   "dep_sched"   departure time (scheduled)      (hourly_check.py:206)   *)
(*   "arr_sched"   arrival time (scheduled)        (hourly_check.py:206)   *)
(*   "dep_act"     departure time (actual)         (hourly_check.py:207)   *)
(*   "arr_act"     arrival time (actual)           (hourly_check.py:207)   *)
(*   "change_kind" the change-kind column          (hourly_check.py:252)   *)
(*   "prev_sched"  previous scheduled time column  (hourly_check.py:314)   *)
(*   "prev_act"    previous actual time column     (hourly_check.py:315)   *)
(***************************************************************************)
EXTENDS Integers, Sequences, FiniteSets, TLC

VARIABLES
    nv_in,      \* normalizer: the pair of raw values handed to normalize_value
    nv_out,     \* normalizer: normalize_value of each
    nv_twice,   \* normalizer: normalize_value of nv_out
    nv_time,    \* normalizer: normalize_value(a) or normalize_value(b)
    nv_pc,      \* normalizer: "input", "once", "twice", "idle"
    previous,   \* classifier: the previous snapshot, or None
    current,    \* classifier: the current snapshot
    order,      \* classifier: the order in which `added` was iterated
    report,     \* classifier: the value compare_data returned
    cpc,        \* classifier: "input", "done", "idle"
    pc,                       \* main: the position of the run
    webhook_url,              \* main: whether DISCORD_WEBHOOK_URL is set
    cache_dep,                \* the file CACHE_FILE
    cache_arr,                \* the file CACHE_FILE_ARRIVAL
    df_departure,             \* main: the rows acquired for departures
    df_arrival,               \* main: the rows acquired for arrivals
    previous_data_departure,  \* main: what load_previous_data returned
    previous_data_arrival,    \* main: what the inline arrival load produced
    rep_dep,                  \* main: has_changes_dep, change_summary_dep, changed_data_departure
    rep_arr,                  \* main: has_changes_arr, change_summary_arr, changed_data_arrival
    success_departure,        \* main
    success_arrival,          \* main
    exit_code,                \* main: <<>> while running, <<n>> after sys.exit(n)
    events,                   \* the run's file and collaborator operations, in order
    notified,                 \* the run's calls of send_discord_notification
    site,                     \* the rows the source site shows: <<departures, arrivals>>
    last_run                  \* what the run before this one did

nvars == <<nv_in, nv_out, nv_twice, nv_time, nv_pc>>
cvars == <<previous, current, order, report, cpc>>
mvars == <<pc, webhook_url, cache_dep, cache_arr, df_departure, df_arrival,
           previous_data_departure, previous_data_arrival, rep_dep, rep_arr,
           success_departure, success_arrival, exit_code, events, notified,
           site, last_run>>
hvars == <<site, last_run>>
vars == <<nvars, cvars, mvars>>

(***************************************************************************)
(* Python values                                                           *)
(***************************************************************************)
\* Python None
None == "<None>"
\* float('nan'), what pandas puts in an empty cell
FloatNaN == "<float nan>"
\* the literal string 'NaN'
StrNaN == "NaN"
\* the empty string
EmptyStr == ""

\* the placeholder written for an absent previous time
Undecided == "TBD"
\* the two change kinds
KindNew == "new"
KindTimeChange == "time_change"

\* bool(v) for the values of the model: None and '' are falsy
Truthy(v) == v # None /\ v # EmptyStr

\* a or b
PyOr(a, b) == IF Truthy(a) THEN a ELSE b

\* isinstance(v, float) and math.isnan(v)
IsFloatNaN(v) == v = FloatNaN

\* v == w in Python: a float NaN equals nothing, itself included
PyEq(v, w) == v = w /\ ~IsFloatNaN(v)

\* normalize_value without the 'NaN' string rule
normalize_value_NoStrNaN(value) ==
    IF value = None \/ PyEq(value, EmptyStr) THEN None
    ELSE IF IsFloatNaN(value) THEN None
    ELSE value

normalize_value(value) ==
    IF value = None \/ PyEq(value, EmptyStr) \/ PyEq(value, StrNaN) THEN None
    ELSE IF IsFloatNaN(value) THEN None
    ELSE value

\* item.get(key)
Get(item, key) == IF key \in DOMAIN item THEN item[key] ELSE None

\* item.copy() followed by item[key] = value
SetField(item, key, value) == (key :> value) @@ item

\* a list-typed Python variable that may hold None
PyNone == [is_none |-> TRUE, list |-> <<>>]
Some(l) == [is_none |-> FALSE, list |-> l]

Range(s) == {s[i] : i \in DOMAIN s}

(***************************************************************************)
(* compare_data                                                            *)
(***************************************************************************)
FlightName(item) == normalize_value(Get(item, "flight"))
FlightDate(item) == normalize_value(Get(item, "date"))

Scheduled(item) ==
    PyOr(normalize_value(Get(item, "dep_sched")), normalize_value(Get(item, "arr_sched")))

Actual(item) ==
    PyOr(normalize_value(Get(item, "dep_act")), normalize_value(Get(item, "arr_act")))

\* the 4-tuple put into prev_flights / curr_flights
FlightTuple(item) == <<FlightName(item), FlightDate(item), Scheduled(item), Actual(item)>>

\* the key of prev_dict / curr_dict
FlightKey(item) == <<FlightName(item), FlightDate(item)>>

\* set(...) of the 4-tuples of a list
FlightSet(list) == {FlightTuple(list[i]) : i \in DOMAIN list}

\* dict built by assignment in list order: the last item of a key stays
DictOf(list) ==
    [k \in {FlightKey(list[i]) : i \in DOMAIN list} |->
        LET last == CHOOSE i \in DOMAIN list :
                        /\ FlightKey(list[i]) = k
                        /\ \A j \in DOMAIN list : FlightKey(list[j]) = k => j <= i
        IN  list[last]]

\* added = curr_flights - prev_flights
Added(prev, curr) == FlightSet(curr) \ FlightSet(prev)

\* the orders a Python set can be iterated in
Orders(S) ==
    {s \in [1..Cardinality(S) -> S] : \A i, j \in 1..Cardinality(S) : s[i] = s[j] => i = j}

\* lines 238-243 with the flight looked up under its date as well
IsCompletelyNew_SameDate(prev, flight) ==
    \A i \in DOMAIN prev :
        ~(FlightName(prev[i]) = flight[1] /\ FlightDate(prev[i]) = flight[2])

\* lines 238-243 never finding the flight name in previous
IsCompletelyNew_Always(prev, flight) == TRUE

\* lines 238-243
IsCompletelyNew(prev, flight) ==
    \A i \in DOMAIN prev : FlightName(prev[i]) # flight[1]

\* lines 233-253 leaving the loop after the first completely new flight
NewLoop_BreakAfterFirst(prev, curr, ord) ==
    LET curr_dict == DictOf(curr)
        F[i \in 0..Len(ord)] ==
            IF i = 0 THEN [new_flight_names |-> {}, changed_items |-> <<>>]
            ELSE LET acc == F[i - 1]
                     flight == ord[i]
                     flight_key == <<flight[1], flight[2]>>
                 IN  IF acc.new_flight_names = {} /\ IsCompletelyNew(prev, flight)
                     THEN [new_flight_names |-> {flight[1]},
                           changed_items |->
                               <<SetField(curr_dict[flight_key], "change_kind", KindNew)>>]
                     ELSE acc
    IN  F[Len(ord)]

\* lines 233-253: the loop over `added`, in the order `ord`
NewLoop(prev, curr, ord) ==
    LET curr_dict == DictOf(curr)
        F[i \in 0..Len(ord)] ==
            IF i = 0 THEN [new_flight_names |-> {}, changed_items |-> <<>>]
            ELSE LET acc == F[i - 1]
                     flight == ord[i]
                     flight_key == <<flight[1], flight[2]>>
                 IN  IF IsCompletelyNew(prev, flight)
                     THEN [new_flight_names |-> acc.new_flight_names \cup {flight[1]},
                           changed_items |->
                               IF flight_key \in DOMAIN curr_dict
                               THEN Append(acc.changed_items,
                                           SetField(curr_dict[flight_key], "change_kind", KindNew))
                               ELSE acc.changed_items]
                     ELSE acc
    IN  F[Len(ord)]

\* lines 278-283, 318: the first previous item with the same flight and date
FirstMatch(prev, curr_item) ==
    LET hits == {j \in DOMAIN prev : /\ FlightName(curr_item) = FlightName(prev[j])
                                     /\ FlightDate(curr_item) = FlightDate(prev[j])}
    IN  IF hits = {} THEN 0 ELSE CHOOSE j \in hits : \A h \in hits : j <= h

\* lines 310-315 recording the times of the current item
TimeChangeItem_CurrentTimes(curr_item, prev_item) ==
    LET curr_scheduled == Scheduled(curr_item)
        curr_actual == Actual(curr_item)
    IN  SetField(
            SetField(
                SetField(curr_item, "change_kind", KindTimeChange),
                "prev_sched", IF curr_scheduled # None THEN curr_scheduled ELSE Undecided),
            "prev_act", IF curr_actual # None THEN curr_actual ELSE Undecided)

\* lines 310-315
TimeChangeItem(curr_item, prev_item) ==
    LET prev_scheduled == Scheduled(prev_item)
        prev_actual == Actual(prev_item)
    IN  SetField(
            SetField(
                SetField(curr_item, "change_kind", KindTimeChange),
                "prev_sched", IF prev_scheduled # None THEN prev_scheduled ELSE Undecided),
            "prev_act", IF prev_actual # None THEN prev_actual ELSE Undecided)

\* line 293 comparing the scheduled time only
TimesDiffer_ScheduledOnly(prev_item, curr_item) ==
    Scheduled(prev_item) # Scheduled(curr_item)

\* line 293
TimesDiffer(prev_item, curr_item) ==
    Scheduled(prev_item) # Scheduled(curr_item) \/ Actual(prev_item) # Actual(curr_item)

\* lines 274-318 without line 316: the flight name is recorded, no item appended
TimeLoop_NoItems(prev, curr, items) ==
    LET F[i \in 0..Len(curr)] ==
            IF i = 0 THEN [time_changes |-> {}, changed_items |-> items]
            ELSE LET acc == F[i - 1]
                     curr_item == curr[i]
                     j == FirstMatch(prev, curr_item)
                 IN  IF j # 0 /\ TimesDiffer(prev[j], curr_item)
                     THEN [time_changes |-> acc.time_changes \cup {FlightName(curr_item)},
                           changed_items |-> acc.changed_items]
                     ELSE acc
    IN  F[Len(curr)]

\* lines 274-318: the loop over current, appending to the items of the first loop
TimeLoop(prev, curr, items) ==
    LET F[i \in 0..Len(curr)] ==
            IF i = 0 THEN [time_changes |-> {}, changed_items |-> items]
            ELSE LET acc == F[i - 1]
                     curr_item == curr[i]
                     j == FirstMatch(prev, curr_item)
                 IN  IF j # 0 /\ TimesDiffer(prev[j], curr_item)
                     THEN [time_changes |-> acc.time_changes \cup {FlightName(curr_item)},
                           changed_items |->
                               Append(acc.changed_items, TimeChangeItem(curr_item, prev[j]))]
                     ELSE acc
    IN  F[Len(curr)]

\* ", ".join(parts)
Join(parts) ==
    LET F[i \in 0..Len(parts)] ==
            IF i = 0 THEN ""
            ELSE IF i = 1 THEN parts[1]
            ELSE F[i - 1] \o ", " \o parts[i]
    IN  F[Len(parts)]

FirstRunSummary == "first run: notifying all data"
NoChangeSummary == "no change"
NewPart(n) == "new: " \o ToString(n) \o " items"
TimeChangePart(n) == "time_change: " \o ToString(n) \o " items"

\* compare_data taking an absent previous for an empty one
compare_data_NoneAsEmpty(prev, curr, ord) ==
    LET new == NewLoop(prev.list, curr, ord)
        tc == TimeLoop(prev.list, curr, new.changed_items)
    IN  IF new.new_flight_names # {} \/ tc.time_changes # {}
        THEN [has_changes |-> TRUE, summary |-> "changed", changed |-> tc.changed_items]
        ELSE [has_changes |-> FALSE, summary |-> NoChangeSummary, changed |-> <<>>]

\* compare_data counting every added (flight, date, times) tuple as a change,
\* lines 230-256 without the test of the flight name
compare_data_AddedCounts(prev, curr, ord) ==
    IF prev.is_none
    THEN [has_changes |-> TRUE, summary |-> FirstRunSummary, changed |-> curr]
    ELSE LET new == NewLoop(prev.list, curr, ord)
             tc == TimeLoop(prev.list, curr, new.changed_items)
             changes ==
                 (IF Added(prev.list, curr) # {}
                  THEN <<NewPart(Cardinality(Added(prev.list, curr)))>> ELSE <<>>)
                 \o
                 (IF tc.time_changes # {}
                  THEN <<TimeChangePart(Cardinality(tc.time_changes))>> ELSE <<>>)
         IN  IF changes # <<>>
             THEN [has_changes |-> TRUE, summary |-> Join(changes), changed |-> tc.changed_items]
             ELSE [has_changes |-> FALSE, summary |-> NoChangeSummary, changed |-> <<>>]

\* compare_data with lists for the sets new_flight_names and time_changes:
\* lines 256 and 321 tallying the records appended
compare_data_TallyRecords(prev, curr, ord) ==
    IF prev.is_none
    THEN [has_changes |-> TRUE, summary |-> FirstRunSummary, changed |-> curr]
    ELSE LET new == NewLoop(prev.list, curr, ord)
             tc == TimeLoop(prev.list, curr, new.changed_items)
             changes ==
                 (IF new.new_flight_names # {}
                  THEN <<NewPart(Len(new.changed_items))>> ELSE <<>>)
                 \o
                 (IF tc.time_changes # {}
                  THEN <<TimeChangePart(Len(tc.changed_items) - Len(new.changed_items))>>
                  ELSE <<>>)
         IN  IF changes # <<>>
             THEN [has_changes |-> TRUE, summary |-> Join(changes), changed |-> tc.changed_items]
             ELSE [has_changes |-> FALSE, summary |-> NoChangeSummary, changed |-> <<>>]

\* compare_data(previous, current), with `added` iterated in the order ord
compare_data(prev, curr, ord) ==
    IF prev.is_none
    THEN [has_changes |-> TRUE, summary |-> FirstRunSummary, changed |-> curr]
    ELSE LET new == NewLoop(prev.list, curr, ord)
             tc == TimeLoop(prev.list, curr, new.changed_items)
             changes ==
                 (IF new.new_flight_names # {}
                  THEN <<NewPart(Cardinality(new.new_flight_names))>> ELSE <<>>)
                 \o
                 (IF tc.time_changes # {}
                  THEN <<TimeChangePart(Cardinality(tc.time_changes))>> ELSE <<>>)
         IN  IF changes # <<>>
             THEN [has_changes |-> TRUE, summary |-> Join(changes), changed |-> tc.changed_items]
             ELSE [has_changes |-> FALSE, summary |-> NoChangeSummary, changed |-> <<>>]

\* the iteration orders of `added` for a call compare_data(prev, curr)
CallOrders(prev, curr) ==
    IF prev.is_none THEN {<<>>} ELSE Orders(Added(prev.list, curr))


(***************************************************************************)
(* Inputs                                                                  *)
(***************************************************************************)
\* the longest snapshot handed to compare_data
MaxSnapshot == 2

Flight1 == "KE123"
Flight2 == "OZ456"
Date1 == "20251101"
Date2 == "20251108"
Time1 == "1000"
Time2 == "1015"
Time3 == "1005"

\* a row of the departure table: parse_cargo_table sets the keys it finds and
\* scrape_multiple_dates adds the retrieval date
DepRecord(f, d, s, a) == [flight |-> f, date |-> d, dep_sched |-> s, dep_act |-> a]
\* a row of the arrival table
ArrRecord(f, d, s, a) == [flight |-> f, date |-> d, arr_sched |-> s, arr_act |-> a]

\* the rows of the model: the first flight on the first date, scheduled at one
\* of two times with the actual time not yet posted, or scheduled and posted;
\* the first flight on a second date; and a second flight.  `absent` is how a
\* missing actual time is held: float NaN in a DataFrame row, None in a row
\* read from JSON.
DepRows(absent) ==
    {DepRecord(Flight1, Date1, t[1], t[2]) :
        t \in {<<Time1, absent>>, <<Time2, absent>>, <<Time1, Time3>>}}
    \cup {DepRecord(Flight1, Date2, Time1, absent),
          DepRecord(Flight2, Date1, Time1, absent)}

SeqsUpTo(S, n) == UNION {[1..k -> S] : k \in 0..n}

\* df.to_dict('records') of an acquired DataFrame
CurrentSnapshots == SeqsUpTo(DepRows(FloatNaN), MaxSnapshot)
\* json.load of a cache file written by save_current_data
PreviousSnapshots == SeqsUpTo(DepRows(None), MaxSnapshot)

NoReport == [has_changes |-> FALSE, summary |-> "", changed |-> <<>>]

\* the longest departure table and the longest arrival table a run acquires
MaxDeparture == 2
MaxArrival == 1

\* scrape_multiple_dates(..., flight_type='departure'): the first flight on the
\* first date, scheduled at one of two times, no actual time posted
DepartureFrames ==
    SeqsUpTo({DepRecord(Flight1, Date1, Time1, FloatNaN),
              DepRecord(Flight1, Date1, Time2, FloatNaN)}, MaxDeparture)
\* scrape_multiple_dates(..., flight_type='arrival'): the second flight on the
\* first date, its actual time posted, not there (no span in the cell: the
\* column is NaN) or empty (a span without text: get_text gives '')
ArrivalFrames ==
    SeqsUpTo({ArrRecord(Flight2, Date1, Time1, FloatNaN),
              ArrRecord(Flight2, Date1, Time1, EmptyStr),
              ArrRecord(Flight2, Date1, Time1, Time3)}, MaxArrival)

(***************************************************************************)
(* The cache files                                                         *)
(***************************************************************************)
\* the strings that occur as field values
StringValues == {EmptyStr, StrNaN, Flight1, Flight2, Date1, Date2, Time1, Time2, Time3}

Quote(v) == "\"" \o v \o "\""

\* json.dump of one value: None is null, a float NaN the bare token NaN, a
\* string is quoted
JsonDumpValue(v) ==
    IF v = None THEN "null" ELSE IF IsFloatNaN(v) THEN "NaN" ELSE Quote(v)

\* json.load of one value
JsonLoadValue(t) ==
    IF t = "null" THEN None
    ELSE IF t = "NaN" THEN FloatNaN
    ELSE CHOOSE v \in StringValues : Quote(v) = t

JsonDump(data) == [i \in DOMAIN data |-> [k \in DOMAIN data[i] |-> JsonDumpValue(data[i][k])]]
JsonLoad(text) == [i \in DOMAIN text |-> [k \in DOMAIN text[i] |-> JsonLoadValue(text[i][k])]]

\* a file: missing, holding a JSON text, or holding what json.load rejects
FileMissing == [state |-> "missing", text |-> <<>>]
FileCorrupt == [state |-> "corrupt", text |-> <<>>]
FileOf(text) == [state |-> "ok", text |-> text]

\* lines 83-85, 440-442 taking a file that cannot be read for an empty snapshot
load_previous_data_EmptyOnFailure(file) ==
    IF file.state = "missing" THEN PyNone
    ELSE IF file.state = "corrupt" THEN Some(<<>>)
    ELSE Some(JsonLoad(file.text))

\* load_previous_data, and the inline arrival load of main
load_previous_data(file) ==
    IF file.state = "missing" THEN PyNone
    ELSE IF file.state = "corrupt" THEN PyNone
    ELSE Some(JsonLoad(file.text))

\* lines 114-125 with normalize_value applied to every value
CleanValue_Normalized(value) == normalize_value(value)

\* lines 114-125: float NaN becomes None, every other value stays
CleanValue(value) == IF IsFloatNaN(value) THEN None ELSE value
CleanedData(data) == [i \in DOMAIN data |-> [k \in DOMAIN data[i] |-> CleanValue(data[i][k])]]

\* what a write leaves in the file: the dumped data; the file as it was when
\* open() raises; a truncated text when the write raises after open()
WriteOutcomes == {"written", "open_failed", "write_failed"}

\* lines 127-128 never reached: the file stays as it was
save_current_data_NoWrite(file, data, outcome) == file

save_current_data(file, data, outcome) ==
    IF outcome = "written" THEN FileOf(JsonDump(CleanedData(data)))
    ELSE IF outcome = "open_failed" THEN file
    ELSE FileCorrupt

\* no run before this one
NoLast == [kind |-> "none", notified |-> <<>>, events |-> <<>>,
           rep_dep |-> NoReport, rep_arr |-> NoReport]

MainIdle ==
    /\ pc = "off" /\ webhook_url = FALSE
    /\ cache_dep = FileMissing /\ cache_arr = FileMissing
    /\ df_departure = <<>> /\ df_arrival = <<>>
    /\ previous_data_departure = PyNone /\ previous_data_arrival = PyNone
    /\ rep_dep = NoReport /\ rep_arr = NoReport
    /\ success_departure = FALSE /\ success_arrival = FALSE
    /\ exit_code = <<>> /\ events = <<>> /\ notified = <<>>
    /\ site = <<<<>>, <<>>>> /\ last_run = NoLast

(***************************************************************************)
(* The normalizer on its own: normalize_value applied to two raw values,   *)
(* combined as compare_data combines them, and applied again.              *)
(***************************************************************************)
RawValues == {None, EmptyStr, StrNaN, FloatNaN, "nan", "None", " ", "0", Time1, Time2}

NormIdle ==
    /\ nv_in = <<None, None>> /\ nv_out = <<None, None>> /\ nv_twice = <<None, None>>
    /\ nv_time = None /\ nv_pc = "idle"

CompareIdle ==
    /\ previous = PyNone /\ current = <<>> /\ order = <<>> /\ report = NoReport
    /\ cpc = "idle"

NormInit ==
    /\ nv_in \in RawValues \X RawValues
    /\ nv_out = <<None, None>> /\ nv_twice = <<None, None>> /\ nv_time = None
    /\ nv_pc = "input"
    /\ CompareIdle
    /\ MainIdle

NormalizeOnce ==
    /\ nv_pc = "input"
    /\ nv_out' = <<normalize_value(nv_in[1]), normalize_value(nv_in[2])>>
    /\ nv_time' = PyOr(normalize_value(nv_in[1]), normalize_value(nv_in[2]))
    /\ nv_pc' = "once"
    /\ UNCHANGED <<nv_in, nv_twice, cvars, mvars>>

NormalizeAgain ==
    /\ nv_pc = "once"
    /\ nv_twice' = <<normalize_value(nv_out[1]), normalize_value(nv_out[2])>>
    /\ nv_pc' = "twice"
    /\ UNCHANGED <<nv_in, nv_out, nv_time, cvars, mvars>>

NormNext == NormalizeOnce \/ NormalizeAgain

SpecNormalize == NormInit /\ [][NormNext]_vars

(***************************************************************************)
(* The classifier on its own: one call of compare_data.                    *)
(***************************************************************************)
CompareInit ==
    /\ previous \in {PyNone} \cup {Some(l) : l \in PreviousSnapshots}
    /\ current \in CurrentSnapshots
    /\ order = <<>> /\ report = NoReport
    /\ cpc = "input"
    /\ NormIdle
    /\ MainIdle

Compare ==
    /\ cpc = "input"
    /\ \E ord \in CallOrders(previous, current) :
        /\ order' = ord
        /\ report' = compare_data(previous, current, ord)
    /\ cpc' = "done"
    /\ UNCHANGED <<previous, current, nvars, mvars>>

CompareNext == Compare

SpecCompare == CompareInit /\ [][CompareNext]_vars


(***************************************************************************)
(* main: check cycles, one after another, over the two cache files          *)
(***************************************************************************)
ExitSuccess == 0
ExitFailure == 1

\* line 406 taking the departures for acquired whatever came back
has_departure_data_Always == TRUE

\* lines 406-407: df is not None and not df.empty
has_departure_data == df_departure # <<>>
has_arrival_data == df_arrival # <<>>
has_changes_overall == rep_dep.has_changes \/ rep_arr.has_changes

\* the statements of main with the departure save put between the two
\* notifications
Sequel_SaveBetweenNotifications(step) ==
    CASE step = "start" -> "acquire"
      [] step = "acquire" -> "check_dep"
      [] step = "check_dep" -> "check_arr"
      [] step = "notify_dep" -> "save_dep"
      [] step = "save_dep" -> "notify_arr"
      [] OTHER -> "exited"

\* the order of the statements of main: the step a step is followed by when
\* the run neither exits nor branches there
Sequel(step) ==
    CASE step = "start" -> "acquire"
      [] step = "acquire" -> "check_dep"
      [] step = "check_dep" -> "check_arr"
      [] step = "notify_dep" -> "notify_arr"
      [] step = "save_dep" -> "save_arr"
      [] OTHER -> "exited"

\* lines 53-54 with one cache file for both directions
CacheFileOf_Shared(flight_type, dep_file, arr_file) == dep_file

\* lines 53-54: CACHE_FILE for the departures, CACHE_FILE_ARRIVAL for the
\* arrivals
CacheFileOf(flight_type, dep_file, arr_file) ==
    IF flight_type = "departure" THEN dep_file ELSE arr_file

\* line 361 never taken
WebhookMissing_Ignored(url) == FALSE

\* line 361: not webhook_url
WebhookMissing(url) == ~url

\* line 409 never taken
NoData_Ignored(d, a) == FALSE

\* line 409: not has_departure_data and not has_arrival_data
NoData(d, a) == d = <<>> /\ a = <<>>

\* lines 455, 465 without the tests on the comparison's result
ShouldNotify_WheneverData(has_data, rep) == has_data

\* lines 455, 465: has_*_data and has_changes_* and changed_data_*
ShouldNotify(has_data, rep) == has_data /\ rep.has_changes /\ rep.changed # <<>>

\* lines 130, 500, 533 letting the error of a failed write through
SaveRaises_Uncaught(outcome) == outcome # "written"

\* lines 130, 500, 533: `except Exception` keeps every error of a write inside
SaveRaises(outcome) == FALSE

\* line 474 taking the notifications for delivered whatever they returned
Success_Always(dep_ok, arr_ok) == TRUE

\* line 474 negated: the caches are saved when no notification got through
Success_Negated(dep_ok, arr_ok) == ~(dep_ok \/ arr_ok)

\* line 474 with `and` for `or`
Success_Both(dep_ok, arr_ok) == dep_ok /\ arr_ok

\* line 474
Success(dep_ok, arr_ok) == dep_ok \/ arr_ok

RunLocalsReset ==
    /\ df_departure' = <<>> /\ df_arrival' = <<>>
    /\ previous_data_departure' = PyNone /\ previous_data_arrival' = PyNone
    /\ rep_dep' = NoReport /\ rep_arr' = NoReport
    /\ success_departure' = FALSE /\ success_arrival' = FALSE
    /\ exit_code' = <<>> /\ events' = <<>> /\ notified' = <<>>

Init ==
    /\ pc = "start"
    /\ webhook_url \in BOOLEAN
    /\ cache_dep \in {FileMissing, FileCorrupt}
    /\ cache_arr \in {FileMissing, FileCorrupt}
    /\ df_departure = <<>> /\ df_arrival = <<>>
    /\ previous_data_departure = PyNone /\ previous_data_arrival = PyNone
    /\ rep_dep = NoReport /\ rep_arr = NoReport
    /\ success_departure = FALSE /\ success_arrival = FALSE
    /\ exit_code = <<>> /\ events = <<>> /\ notified = <<>>
    /\ site = <<<<>>, <<>>>> /\ last_run = NoLast
    /\ NormIdle /\ CompareIdle

\* lines 359-365
Start ==
    /\ pc = "start"
    /\ IF WebhookMissing(webhook_url)
       THEN pc' = "exited" /\ exit_code' = <<ExitFailure>>
       ELSE pc' = Sequel("start") /\ exit_code' = exit_code
    /\ UNCHANGED <<webhook_url, cache_dep, cache_arr, df_departure, df_arrival,
                   previous_data_departure, previous_data_arrival, rep_dep, rep_arr,
                   success_departure, success_arrival, events, notified, nvars, cvars, hvars>>

\* lines 383-411, the two acquisitions returning one of D and one of A
AcquireFrom(D, A) ==
    /\ pc = "acquire"
    /\ \E d \in D, a \in A :
        /\ df_departure' = d
        /\ df_arrival' = a
        /\ IF NoData(d, a)
           THEN pc' = "exited" /\ exit_code' = <<ExitFailure>>
           ELSE pc' = Sequel("acquire") /\ exit_code' = exit_code
    /\ events' = events \o <<"acquire_dep", "acquire_arr">>
    /\ UNCHANGED <<webhook_url, cache_dep, cache_arr,
                   previous_data_departure, previous_data_arrival, rep_dep, rep_arr,
                   success_departure, success_arrival, notified, nvars, cvars, hvars>>

\* the acquisitions of a run, the site showing any rows
Acquire == AcquireFrom(DepartureFrames, ArrivalFrames)

\* lines 416-425
CheckDeparture ==
    /\ pc = "check_dep"
    /\ IF has_departure_data
       THEN LET prev == load_previous_data(CacheFileOf("departure", cache_dep, cache_arr)) IN
            /\ previous_data_departure' = prev
            /\ \E ord \in CallOrders(prev, df_departure) :
                   rep_dep' = compare_data(prev, df_departure, ord)
            /\ events' = events \o <<"load_dep", "compare_dep">>
       ELSE UNCHANGED <<previous_data_departure, rep_dep, events>>
    /\ pc' = Sequel("check_dep")
    /\ UNCHANGED <<webhook_url, cache_dep, cache_arr, df_departure, df_arrival,
                   previous_data_arrival, rep_arr,
                   success_departure, success_arrival, exit_code, notified, nvars, cvars, hvars>>

\* lines 427-448, 510-511
CheckArrival ==
    /\ pc = "check_arr"
    /\ IF has_arrival_data
       THEN LET prev == load_previous_data(CacheFileOf("arrival", cache_dep, cache_arr)) IN
            /\ previous_data_arrival' = prev
            /\ \E ord \in CallOrders(prev, df_arrival) :
                   rep_arr' = compare_data(prev, df_arrival, ord)
            /\ events' = events \o <<"load_arr", "compare_arr">>
       ELSE UNCHANGED <<previous_data_arrival, rep_arr, events>>
    /\ pc' = IF rep_dep.has_changes \/ rep_arr'.has_changes THEN "notify_dep" ELSE "save_dep"
    /\ UNCHANGED <<webhook_url, cache_dep, cache_arr, df_departure, df_arrival,
                   previous_data_departure, rep_dep,
                   success_departure, success_arrival, exit_code, notified, nvars, cvars, hvars>>

\* lines 451-462
NotifyDeparture ==
    /\ pc = "notify_dep"
    /\ IF ShouldNotify(has_departure_data, rep_dep)
       THEN \E ok \in BOOLEAN :
            /\ success_departure' = ok
            /\ notified' = Append(notified,
                   [flight_type |-> "departure", df |-> rep_dep.changed, ok |-> ok])
            /\ events' = Append(events, "notify_dep")
       ELSE UNCHANGED <<success_departure, notified, events>>
    /\ pc' = Sequel("notify_dep")
    /\ UNCHANGED <<webhook_url, cache_dep, cache_arr, df_departure, df_arrival,
                   previous_data_departure, previous_data_arrival, rep_dep, rep_arr,
                   success_arrival, exit_code, nvars, cvars, hvars>>

\* lines 464-476, 507-509
NotifyArrival ==
    /\ pc = "notify_arr"
    /\ IF ShouldNotify(has_arrival_data, rep_arr)
       THEN \E ok \in BOOLEAN :
            /\ success_arrival' = ok
            /\ notified' = Append(notified,
                   [flight_type |-> "arrival", df |-> rep_arr.changed, ok |-> ok])
            /\ events' = Append(events, "notify_arr")
       ELSE UNCHANGED <<success_arrival, notified, events>>
    /\ IF Success(success_departure, success_arrival')
       THEN pc' = "save_dep" /\ exit_code' = exit_code
       ELSE pc' = "exited" /\ exit_code' = <<ExitFailure>>
    /\ UNCHANGED <<webhook_url, cache_dep, cache_arr, df_departure, df_arrival,
                   previous_data_departure, previous_data_arrival, rep_dep, rep_arr,
                   success_departure, nvars, cvars, hvars>>

\* lines 478-479 and 513-514
SaveDeparture ==
    /\ pc = "save_dep"
    /\ IF has_departure_data
       THEN \E outcome \in WriteOutcomes :
            /\ cache_dep' = save_current_data(cache_dep, df_departure, outcome)
            /\ events' = Append(events, IF outcome = "written" THEN "save_dep"
                                                               ELSE "save_dep_failed")
            /\ IF SaveRaises(outcome)
               THEN pc' = "exited" /\ exit_code' = <<ExitFailure>>
               ELSE pc' = Sequel("save_dep") /\ exit_code' = exit_code
       ELSE /\ pc' = Sequel("save_dep")
            /\ UNCHANGED <<cache_dep, events, exit_code>>
    /\ UNCHANGED <<webhook_url, cache_arr, df_departure, df_arrival,
                   previous_data_departure, previous_data_arrival, rep_dep, rep_arr,
                   success_departure, success_arrival, notified, nvars, cvars, hvars>>

\* lines 480-506 and 515-539
SaveArrival ==
    /\ pc = "save_arr"
    /\ IF has_arrival_data
       THEN \E outcome \in WriteOutcomes :
            /\ cache_arr' = save_current_data(cache_arr, df_arrival, outcome)
            /\ events' = Append(events, IF outcome = "written" THEN "save_arr"
                                                               ELSE "save_arr_failed")
            /\ exit_code' = IF SaveRaises(outcome) THEN <<ExitFailure>> ELSE <<ExitSuccess>>
       ELSE /\ exit_code' = <<ExitSuccess>>
            /\ UNCHANGED <<cache_arr, events>>
    /\ pc' = "exited"
    /\ UNCHANGED <<webhook_url, cache_dep, df_departure, df_arrival,
                   previous_data_departure, previous_data_arrival, rep_dep, rep_arr,
                   success_departure, success_arrival, notified, nvars, cvars, hvars>>

\* the scheduler starts the next run; the cache files are all that is kept
NextRun ==
    /\ pc = "exited"
    /\ pc' = "start"
    /\ RunLocalsReset
    /\ UNCHANGED <<webhook_url, cache_dep, cache_arr, nvars, cvars, hvars>>

Next ==
    \/ Start
    \/ Acquire
    \/ CheckDeparture
    \/ CheckArrival
    \/ NotifyDeparture
    \/ NotifyArrival
    \/ SaveDeparture
    \/ SaveArrival
    \/ NextRun

Spec == Init /\ [][Next]_vars

(***************************************************************************)
(* The hourly check and the daily notification over a site that keeps      *)
(* showing the same rows: run after run acquires the same data.  last_run  *)
(* remembers what the run before did.                                      *)
(***************************************************************************)
\* daily_notify.save_cache_data lines 57-66, and the inline arrival save
\* lines 260-269: df.to_dict('records') with a float NaN replaced by None
CleanedRecords(df) ==
    [i \in DOMAIN df |-> [k \in DOMAIN df[i] |->
        IF IsFloatNaN(df[i][k]) THEN None ELSE df[i][k]]]

\* daily_notify.save_cache_data, and the inline arrival save of daily main
save_cache_data(file, df, outcome) ==
    IF outcome = "written" THEN FileOf(JsonDump(CleanedRecords(df)))
    ELSE IF outcome = "open_failed" THEN file
    ELSE FileCorrupt

\* daily_notify line 249
DailySuccess(dep_ok, arr_ok) == dep_ok \/ arr_ok

\* the cache files at the start: none, an unreadable one, or what an earlier
\* run saved when the site showed one row
OlderDepartureCaches ==
    {FileMissing, FileCorrupt}
        \cup {FileOf(JsonDump(CleanedData(d))) : d \in {x \in DepartureFrames : Len(x) = 1}}
OlderArrivalCaches ==
    {FileMissing, FileCorrupt}
        \cup {FileOf(JsonDump(CleanedData(a))) : a \in {x \in ArrivalFrames : Len(x) = 1}}

InitSteady ==
    /\ pc = "start"
    /\ webhook_url \in BOOLEAN
    /\ site \in DepartureFrames \X ArrivalFrames
    /\ cache_dep \in OlderDepartureCaches
    /\ cache_arr \in OlderArrivalCaches
    /\ last_run = NoLast
    /\ df_departure = <<>> /\ df_arrival = <<>>
    /\ previous_data_departure = PyNone /\ previous_data_arrival = PyNone
    /\ rep_dep = NoReport /\ rep_arr = NoReport
    /\ success_departure = FALSE /\ success_arrival = FALSE
    /\ exit_code = <<>> /\ events = <<>> /\ notified = <<>>
    /\ NormIdle /\ CompareIdle

\* the notifications of a run without their payloads
Outcomes(sent) ==
    [n \in DOMAIN sent |-> [flight_type |-> sent[n].flight_type, ok |-> sent[n].ok]]

\* some call of send_discord_notification of the run returned True
AnyNotificationSucceeded == \E n \in DOMAIN notified : notified[n].ok

\* the acquisitions of a run, the site showing what it showed before
AcquireSteady == AcquireFrom({site[1]}, {site[2]})

\* the scheduler starts the next hourly run
NextRunSteady ==
    /\ pc = "exited"
    /\ pc' = "start"
    /\ RunLocalsReset
    /\ last_run' = IF AnyNotificationSucceeded \/ notified = <<>>
                   THEN [kind |-> "hourly", notified |-> Outcomes(notified),
                         events |-> events, rep_dep |-> NoReport, rep_arr |-> NoReport]
                   ELSE [kind |-> "hourly", notified |-> notified,
                         events |-> events, rep_dep |-> rep_dep, rep_arr |-> rep_arr]
    /\ UNCHANGED <<webhook_url, cache_dep, cache_arr, site, nvars, cvars>>

\* daily_notify.main, lines 159-284, run between two hourly runs
DailyRun ==
    /\ pc = "start"
    /\ LET df_dep == site[1]
           df_arr == site[2]
           has_departure == df_dep # <<>>
           has_arrival == df_arr # <<>>
       IN  IF ~webhook_url \/ (~has_departure /\ ~has_arrival)
           THEN /\ last_run' = [NoLast EXCEPT !.kind = "daily"]
                /\ UNCHANGED <<cache_dep, cache_arr>>
           ELSE \E dep_ok \in IF has_departure THEN BOOLEAN ELSE {FALSE},
                   arr_ok \in IF has_arrival THEN BOOLEAN ELSE {FALSE},
                   dep_out \in WriteOutcomes, arr_out \in WriteOutcomes :
                LET sent ==
                        (IF has_departure
                         THEN <<[flight_type |-> "departure", df |-> df_dep, ok |-> dep_ok]>>
                         ELSE <<>>)
                        \o
                        (IF has_arrival
                         THEN <<[flight_type |-> "arrival", df |-> df_arr, ok |-> arr_ok]>>
                         ELSE <<>>)
                    save_dep == DailySuccess(dep_ok, arr_ok) /\ has_departure
                    save_arr == DailySuccess(dep_ok, arr_ok) /\ has_arrival
                    saves ==
                        (IF save_dep
                         THEN <<IF dep_out = "written" THEN "save_dep" ELSE "save_dep_failed">>
                         ELSE <<>>)
                        \o
                        (IF save_arr
                         THEN <<IF arr_out = "written" THEN "save_arr" ELSE "save_arr_failed">>
                         ELSE <<>>)
                IN  /\ cache_dep' = IF save_dep THEN save_cache_data(cache_dep, df_dep, dep_out)
                                    ELSE cache_dep
                    /\ cache_arr' = IF save_arr THEN save_cache_data(cache_arr, df_arr, arr_out)
                                    ELSE cache_arr
                    /\ last_run' = [kind |-> "daily", notified |-> sent, events |-> saves,
                                    rep_dep |-> NoReport, rep_arr |-> NoReport]
    /\ UNCHANGED <<pc, webhook_url, site, df_departure, df_arrival,
                   previous_data_departure, previous_data_arrival, rep_dep, rep_arr,
                   success_departure, success_arrival, exit_code, events, notified,
                   nvars, cvars>>

NextSteady ==
    \/ Start
    \/ AcquireSteady
    \/ CheckDeparture
    \/ CheckArrival
    \/ NotifyDeparture
    \/ NotifyArrival
    \/ SaveDeparture
    \/ SaveArrival
    \/ NextRunSteady

SpecSteady == InitSteady /\ [][NextSteady]_vars

\* the same with the daily notification run between hourly runs
NextDaily ==
    \/ NextSteady
    \/ DailyRun

SpecDaily == InitSteady /\ [][NextDaily]_vars

(***************************************************************************)
(* Properties                                                              *)
(***************************************************************************)
\* the normalizer's rules as the specification words them
AbsentForms == {None, EmptyStr, StrNaN, FloatNaN}
Norm(v) == IF v \in AbsentForms THEN None ELSE v

TagFields == {"change_kind", "prev_sched", "prev_act"}
Restrict(item, D) == [k \in D |-> item[k]]
Untagged(item) == Restrict(item, DOMAIN item \ TagFields)
Count(seq, x) == Cardinality({i \in DOMAIN seq : seq[i] = x})
SameBag(a, b) == \A x \in Range(a) \cup Range(b) : Count(a, x) = Count(b, x)
SelectItems(seq, Test(_)) ==
    LET F[i \in 0..Len(seq)] ==
            IF i = 0 THEN <<>>
            ELSE IF Test(seq[i]) THEN Append(F[i - 1], seq[i]) ELSE F[i - 1]
    IN  F[Len(seq)]
MapItems(seq, Op(_)) == [i \in DOMAIN seq |-> Op(seq[i])]

ClaimId(item) == Norm(Get(item, "flight"))
ClaimDate(item) == Norm(Get(item, "date"))
ClaimKey(item) == <<ClaimId(item), ClaimDate(item)>>
ClaimSched(item) ==
    IF "dep_sched" \in DOMAIN item THEN Norm(item["dep_sched"]) ELSE Norm(Get(item, "arr_sched"))
ClaimAct(item) ==
    IF "dep_act" \in DOMAIN item THEN Norm(item["dep_act"]) ELSE Norm(Get(item, "arr_act"))
NormItem(item) == [k \in DOMAIN item |-> Norm(item[k])]
Kind(item) == Get(item, "change_kind")
IdsOf(list) == {ClaimId(list[i]) : i \in DOMAIN list}
KeysOf(list) == {ClaimKey(list[i]) : i \in DOMAIN list}
UniqueKeys(list) == \A i, j \in DOMAIN list : ClaimKey(list[i]) = ClaimKey(list[j]) => i = j
IsNew(item) == Kind(item) = KindNew
IsTimeChange(item) == Kind(item) = KindTimeChange

Compared == cpc = "done" /\ ~previous.is_none

\* C1: with previous absent and current non-empty, compare_data returns
\* has_changes = true, the first-run summary and current itself as the changed
\* records: same records, same order, no tag and no prior-value field.
C1_FirstRunBaseline ==
    (cpc = "done" /\ previous.is_none /\ current # <<>>) =>
        /\ report.has_changes = TRUE
        /\ report.summary = FirstRunSummary
        /\ report.changed = current

C1_Witness ==
    /\ cpc = "done" /\ previous.is_none /\ Len(current) = 2
    /\ current[1] # current[2]

\* C2: with previous present, a changed record is tagged new exactly when its
\* normalized flight id occurs in no previous record, whatever the dates; a
\* current record whose id occurs in previous only under other dates is
\* reported neither as new nor as time change.
C2_NewIffIdAbsent ==
    Compared =>
        /\ \A m \in DOMAIN report.changed :
               IsNew(report.changed[m]) <=> ClaimId(report.changed[m]) \notin IdsOf(previous.list)
        /\ \A i \in DOMAIN current :
               (/\ ClaimId(current[i]) \in IdsOf(previous.list)
                /\ ClaimKey(current[i]) \notin KeysOf(previous.list))
               => \A m \in DOMAIN report.changed :
                      ClaimKey(report.changed[m]) # ClaimKey(current[i])

C2_Witness ==
    /\ Compared
    /\ \E i \in DOMAIN current :
           /\ ClaimId(current[i]) \in IdsOf(previous.list)
           /\ ClaimKey(current[i]) \notin KeysOf(previous.list)
    /\ \E m \in DOMAIN report.changed : IsNew(report.changed[m])

\* C3: with previous present, the records tagged new are, as a multiset, all the
\* current records whose flight id is absent from previous, each exactly once,
\* also when several current records share a (flight id, date) key.
C3_NewRecordsAreAllNewFlights ==
    Compared =>
        SameBag(MapItems(SelectItems(report.changed, IsNew), Untagged),
                SelectItems(current, LAMBDA c : ClaimId(c) \notin IdsOf(previous.list)))

\* C4: for snapshots without repeated keys, a current record is tagged time
\* change exactly when previous holds a record of the same key whose normalized
\* scheduled time or normalized actual time differs; each is compared on its own.
C4_TimeChangeIffTimesDiffer ==
    (Compared /\ UniqueKeys(previous.list) /\ UniqueKeys(current)) =>
        \A i \in DOMAIN current :
            (\E m \in DOMAIN report.changed :
                /\ IsTimeChange(report.changed[m])
                /\ Untagged(report.changed[m]) = current[i])
            <=>
            (\E j \in DOMAIN previous.list :
                /\ ClaimKey(previous.list[j]) = ClaimKey(current[i])
                /\ \/ ClaimSched(previous.list[j]) # ClaimSched(current[i])
                   \/ ClaimAct(previous.list[j]) # ClaimAct(current[i]))

\* an actual time posted where none was, the scheduled time unchanged, next to
\* a record of another key that did not change
C4_Witness ==
    /\ Compared /\ UniqueKeys(previous.list) /\ UniqueKeys(current)
    /\ Len(previous.list) = 2 /\ Len(current) = 2
    /\ \E i \in DOMAIN current, j \in DOMAIN previous.list :
           /\ ClaimKey(previous.list[j]) = ClaimKey(current[i])
           /\ ClaimSched(previous.list[j]) = ClaimSched(current[i])
           /\ ClaimAct(previous.list[j]) = None /\ ClaimAct(current[i]) # None
    /\ KeysOf(previous.list) = KeysOf(current)
    /\ Len(report.changed) = 1
    /\ IsTimeChange(report.changed[1])

RenderPrior(v) == IF v = None THEN Undecided ELSE v

\* C5: a record tagged time change is a copy of a current record with two added
\* fields, the normalized scheduled and actual time of the previous record of
\* its key (TBD when absent); a record tagged new has no prior-value field.
C5_TimeChangeCarriesPriorTimes ==
    Compared =>
        \A m \in DOMAIN report.changed :
            LET item == report.changed[m] IN
            /\ IsTimeChange(item) =>
                   /\ \E i \in DOMAIN current : Untagged(item) = current[i]
                   /\ DOMAIN item = DOMAIN Untagged(item) \cup TagFields
                   /\ \E j \in DOMAIN previous.list :
                          /\ ClaimKey(previous.list[j]) = ClaimKey(item)
                          /\ item["prev_sched"] = RenderPrior(ClaimSched(previous.list[j]))
                          /\ item["prev_act"] = RenderPrior(ClaimAct(previous.list[j]))
            /\ IsNew(item) =>
                   /\ "prev_sched" \notin DOMAIN item
                   /\ "prev_act" \notin DOMAIN item

C5_Witness ==
    /\ Compared
    /\ \E m \in DOMAIN report.changed :
           /\ IsTimeChange(report.changed[m])
           /\ report.changed[m]["prev_sched"] = Time1
           /\ report.changed[m]["dep_sched"] = Time2
           /\ report.changed[m]["prev_act"] = Undecided
    /\ \E m \in DOMAIN report.changed : IsNew(report.changed[m])


\* current is previous with all records of some flights removed, nothing else
\* differing
RemovedOnly(prev, curr) ==
    \E R \in SUBSET IdsOf(prev) :
        MapItems(curr, NormItem)
            = SelectItems(MapItems(prev, NormItem), LAMBDA p : ClaimId(p) \notin R)

\* C6: with previous present, every changed record is a copy of a current
\* record tagged new or time change, none is tagged deleted and none exists only
\* in previous; if current is previous with some flights removed and nothing
\* else differs, has_changes is false and the changed records are empty.
C6_NoDeletionReported ==
    Compared =>
        /\ \A m \in DOMAIN report.changed :
               /\ IsNew(report.changed[m]) \/ IsTimeChange(report.changed[m])
               /\ \E i \in DOMAIN current : Untagged(report.changed[m]) = current[i]
        /\ RemovedOnly(previous.list, current) =>
               /\ report.has_changes = FALSE
               /\ report.changed = <<>>

ChangedKey(item) == <<ClaimId(item), ClaimDate(item), Kind(item)>>

\* C8: whatever order the set of added flight tuples is iterated in,
\* compare_data returns the same has_changes, the same summary and the same
\* multiset of changed records keyed by (flight id, date, change kind).
C8_SameReportInEveryOrder ==
    cpc = "done" =>
        \A o \in CallOrders(previous, current) :
            LET r == compare_data(previous, current, o) IN
            /\ r.has_changes = report.has_changes
            /\ r.summary = report.summary
            /\ SameBag(MapItems(r.changed, ChangedKey), MapItems(report.changed, ChangedKey))

\* two new flights whose records come out in another order under another
\* iteration order
C8_Witness ==
    /\ Compared
    /\ Cardinality({report.changed[m]["flight"] : m \in DOMAIN report.changed}) = 2
    /\ \E o \in CallOrders(previous, current) :
           compare_data(previous, current, o).changed # report.changed

\* C9: normalize_value maps None, '', 'NaN' and a float NaN to None, returns
\* every other value unchanged, and applying it twice gives what applying it
\* once gives.
C9_NormalizeRulesAndIdempotence ==
    /\ nv_pc \in {"once", "twice"} =>
           \A i \in 1..2 :
               IF nv_in[i] \in AbsentForms THEN nv_out[i] = None ELSE nv_out[i] = nv_in[i]
    /\ nv_pc = "twice" => nv_twice = nv_out

C9_Witness ==
    /\ nv_pc = "twice"
    /\ nv_in = <<StrNaN, "nan">>
    /\ nv_twice = <<None, "nan">>


\* what a cache file holds, read back, after a run saved `data` to it
SavedForm(data) == JsonLoad(JsonDump(CleanedData(data)))
Did(event) == event \in Range(events)
EveryNotificationFailed == \A n \in DOMAIN notified : ~notified[n].ok

\* C7: when the cache holds the snapshot a run saved and the next run acquires
\* the identical snapshot, repeated keys with different times included, the
\* comparison yields has_changes = false and no changed records, nothing is
\* notified, and the cache is rewritten with the unchanged snapshot.
C7_IdenticalSnapshotNoChange ==
    /\ (Did("compare_dep") /\ previous_data_departure = Some(SavedForm(df_departure))) =>
           rep_dep.has_changes = FALSE /\ rep_dep.changed = <<>>
    /\ (Did("compare_arr") /\ previous_data_arrival = Some(SavedForm(df_arrival))) =>
           rep_arr.has_changes = FALSE /\ rep_arr.changed = <<>>
    /\ (/\ pc = "exited" /\ Did("acquire_dep")
        /\ has_departure_data \/ has_arrival_data
        /\ has_departure_data => previous_data_departure = Some(SavedForm(df_departure))
        /\ has_arrival_data => previous_data_arrival = Some(SavedForm(df_arrival)))
       => /\ notified = <<>>
          /\ has_departure_data => Did("save_dep") \/ Did("save_dep_failed")
          /\ Did("save_dep") => cache_dep = FileOf(JsonDump(CleanedData(df_departure)))
          /\ has_arrival_data => Did("save_arr") \/ Did("save_arr_failed")
          /\ Did("save_arr") => cache_arr = FileOf(JsonDump(CleanedData(df_arrival)))

\* C10: with the webhook configured, a run exits 0 exactly when some direction
\* yielded data and either no direction has changes or some notification
\* attempt returned success; it exits 1 when no data was acquired or when
\* changes exist and every attempt failed.
C10_ExitStatus ==
    (pc = "exited" /\ webhook_url) =>
        /\ exit_code = <<ExitSuccess>> <=>
               /\ df_departure # <<>> \/ df_arrival # <<>>
               /\ \/ ~(rep_dep.has_changes \/ rep_arr.has_changes)
                  \/ AnyNotificationSucceeded
        /\ exit_code = <<ExitFailure>> <=>
               \/ df_departure = <<>> /\ df_arrival = <<>>
               \/ /\ rep_dep.has_changes \/ rep_arr.has_changes
                  /\ EveryNotificationFailed

\* the departure notification failed, the arrival notification succeeded
C10_Witness ==
    /\ pc = "exited" /\ webhook_url
    /\ Len(notified) = 2
    /\ ~notified[1].ok /\ notified[2].ok
    /\ exit_code = <<ExitSuccess>>

\* C11: when both acquisitions of a run yield no data the run exits with
\* status 1 straight after them: no cache file is read, nothing is compared,
\* nothing is notified and no cache file is written.
C11_NoDataExitsBeforeAnything ==
    (/\ pc = "exited" /\ Did("acquire_dep")
     /\ df_departure = <<>> /\ df_arrival = <<>>)
    => /\ exit_code = <<ExitFailure>>
       /\ events = <<"acquire_dep", "acquire_arr">>
       /\ notified = <<>>
       /\ previous_data_departure = PyNone /\ previous_data_arrival = PyNone
       /\ rep_dep = NoReport /\ rep_arr = NoReport

\* a run that acquired nothing has ended, a cache file of an earlier run is
\* still in place
C11_Witness ==
    /\ pc = "exited" /\ Did("acquire_dep")
    /\ df_departure = <<>> /\ df_arrival = <<>>
    /\ cache_dep.state = "ok"
    /\ exit_code = <<ExitFailure>>

\* a write of the run's snapshot to the cache file of each direction that
\* yielded data has been attempted, and a write that went through left that
\* snapshot in the file
SnapshotsWritten ==
    /\ has_departure_data =>
           /\ Did("save_dep") \/ Did("save_dep_failed")
           /\ Did("save_dep") => cache_dep = FileOf(JsonDump(CleanedData(df_departure)))
    /\ has_arrival_data =>
           /\ Did("save_arr") \/ Did("save_arr_failed")
           /\ Did("save_arr") => cache_arr = FileOf(JsonDump(CleanedData(df_arrival)))

\* C12 as stated: in every run in which some direction yielded data, each
\* direction that yielded data has its cache file written with the run's
\* snapshot before the run ends, whatever the notification attempts returned.
C12_CacheWrittenWhateverTheOutcome ==
    (/\ pc = "exited" /\ Did("acquire_dep")
     /\ has_departure_data \/ has_arrival_data)
    => SnapshotsWritten

\* C12: in every run in which some direction yielded data and either no
\* direction had changes or some notification attempt returned success, each
\* direction that yielded data has its cache file written with the run's
\* snapshot before the run ends, whether or not that direction had changes; a
\* run whose changes could not be notified at all ends without writing.
C12_CacheWrittenUnlessEveryNotificationFailed ==
    (/\ pc = "exited" /\ Did("acquire_dep")
     /\ has_departure_data \/ has_arrival_data)
    => IF ~has_changes_overall \/ AnyNotificationSucceeded
       THEN SnapshotsWritten
       ELSE ~(\E e \in {"save_dep", "save_dep_failed", "save_arr", "save_arr_failed"} : Did(e))

\* the arrival notification went out, the departures had no change, and both
\* files were written
C12_Witness ==
    /\ pc = "exited"
    /\ has_departure_data /\ ~rep_dep.has_changes
    /\ Len(notified) = 1 /\ notified[1].flight_type = "arrival" /\ notified[1].ok
    /\ Did("save_dep") /\ Did("save_arr")
    /\ cache_dep = FileOf(JsonDump(CleanedData(df_departure)))

\* C13: a cache file changes, or a write of it is attempted, only in the save
\* steps of a run in which some notification attempt returned success or no
\* direction had changes; a run with changes and no successful notification
\* leaves both files as they were before it.
C13_CacheWrittenOnlyOnSuccess ==
    [][(\/ cache_dep' # cache_dep
        \/ cache_arr' # cache_arr
        \/ \E e \in {"save_dep", "save_dep_failed", "save_arr", "save_arr_failed"} :
               e \in Range(events') /\ ~Did(e))
       => /\ pc \in {"save_dep", "save_arr"}
          /\ AnyNotificationSucceeded \/ ~has_changes_overall]_vars

\* a run whose only notification failed has ended with the departure file of
\* an earlier run still in place, although the departures differ from it
C13_Witness ==
    /\ pc = "exited" /\ exit_code = <<ExitFailure>>
    /\ notified # <<>> /\ EveryNotificationFailed
    /\ has_departure_data /\ rep_dep.has_changes
    /\ cache_dep.state = "ok"
    /\ cache_dep # FileOf(JsonDump(CleanedData(df_departure)))
    /\ previous_data_departure = load_previous_data(cache_dep)

\* the notifications of the run that went to one direction
NotifiedFor(flight_type) ==
    SelectSeq(notified, LAMBDA n : n.flight_type = flight_type)

\* C14: once the notifications of a run are over, a direction was notified
\* exactly when it yielded data, its comparison returned has_changes = true
\* and its changed records are not empty; it was notified at most once, with
\* exactly its changed records (the whole snapshot when there was no cache);
\* and nothing was notified when no direction had changes.
C14_NotifiedIffChanges ==
    pc \in {"save_dep", "save_arr", "exited"} =>
        /\ NotifiedFor("departure") # <<>> <=>
               (has_departure_data /\ rep_dep.has_changes /\ rep_dep.changed # <<>>)
        /\ NotifiedFor("arrival") # <<>> <=>
               (has_arrival_data /\ rep_arr.has_changes /\ rep_arr.changed # <<>>)
        /\ Len(NotifiedFor("departure")) <= 1 /\ Len(NotifiedFor("arrival")) <= 1
        /\ Len(notified) = Len(NotifiedFor("departure")) + Len(NotifiedFor("arrival"))
        /\ \A n \in DOMAIN notified :
               /\ notified[n].flight_type = "departure" =>
                      /\ notified[n].df = rep_dep.changed
                      /\ previous_data_departure.is_none => notified[n].df = df_departure
               /\ notified[n].flight_type = "arrival" =>
                      /\ notified[n].df = rep_arr.changed
                      /\ previous_data_arrival.is_none => notified[n].df = df_arrival
        /\ ~has_changes_overall => notified = <<>>

\* the arrivals changed against their cache and were notified with the one
\* changed record; the departures, acquired and unchanged, were not
C14_Witness ==
    /\ pc = "exited"
    /\ has_departure_data /\ ~rep_dep.has_changes
    /\ ~previous_data_arrival.is_none
    /\ Len(notified) = 1 /\ notified[1].flight_type = "arrival"
    /\ notified[1].df = rep_arr.changed /\ notified[1].df # df_arrival

\* C15: loading a cache file that is missing or unreadable does not end the
\* run: the loader, the departure one and the inline arrival one alike,
\* returns None, and the comparison of that direction is the first-run
\* baseline, has_changes = true with the whole current snapshot.
C15_UnreadableCacheIsBaseline ==
    /\ (/\ pc \in {"check_arr", "notify_dep", "notify_arr", "save_dep"}
        /\ has_departure_data
        /\ cache_dep.state \in {"missing", "corrupt"})
       => /\ Did("load_dep") /\ Did("compare_dep") /\ exit_code = <<>>
          /\ previous_data_departure = PyNone
          /\ rep_dep = [has_changes |-> TRUE, summary |-> FirstRunSummary,
                        changed |-> df_departure]
    /\ (/\ pc \in {"notify_dep", "notify_arr", "save_dep", "save_arr"}
        /\ has_arrival_data
        /\ cache_arr.state \in {"missing", "corrupt"})
       => /\ Did("load_arr") /\ Did("compare_arr") /\ exit_code = <<>>
          /\ previous_data_arrival = PyNone
          /\ rep_arr = [has_changes |-> TRUE, summary |-> FirstRunSummary,
                        changed |-> df_arrival]

\* a missing departure file and an arrival file cut short by a failed write
\* have both been loaded, and the run goes on to notify
C15_Witness ==
    /\ pc = "notify_dep"
    /\ has_departure_data /\ cache_dep.state = "missing"
    /\ has_arrival_data /\ cache_arr.state = "corrupt"
    /\ rep_dep.has_changes /\ rep_arr.has_changes
    /\ rep_arr.changed = df_arrival

\* the file was written by this run and holds, record by record and field by
\* field, stored(value) for the values of the snapshot
StoredAs(file, data, stored(_)) ==
    /\ file.state = "ok"
    /\ DOMAIN file.text = DOMAIN data
    /\ \A i \in DOMAIN data :
           /\ DOMAIN file.text[i] = DOMAIN data[i]
           /\ \A k \in DOMAIN data[i] :
                  JsonLoadValue(file.text[i][k]) = stored(data[i][k])

\* what the claim has stored: None for the four absent forms
StoredNormalized(v) == IF v \in {None, EmptyStr, StrNaN, FloatNaN} THEN None ELSE v

\* None for a float NaN only
StoredNaNCleaned(v) == IF v = FloatNaN THEN None ELSE v

\* C16 as stated: after a successful save every field of every record in the
\* cache file is normalize_value of the field saved: None, the empty string,
\* the string 'NaN' and a float NaN are stored as null, any other value as
\* it is.
C16_SavedFieldsNormalized ==
    /\ (pc \in {"save_arr", "exited"} /\ Did("save_dep")) =>
           StoredAs(cache_dep, df_departure, StoredNormalized)
    /\ (pc = "exited" /\ Did("save_arr")) =>
           StoredAs(cache_arr, df_arrival, StoredNormalized)

\* C16: after a successful save every field of every record in the cache
\* file is the field saved with a float NaN replaced by null; None is stored
\* as null too, and every other value, the empty string included, is stored
\* as it is.
C16_SavedFieldsNaNCleaned ==
    /\ (pc \in {"save_arr", "exited"} /\ Did("save_dep")) =>
           StoredAs(cache_dep, df_departure, StoredNaNCleaned)
    /\ (pc = "exited" /\ Did("save_arr")) =>
           StoredAs(cache_arr, df_arrival, StoredNaNCleaned)

\* an arrival whose actual time was acquired as the empty string has been
\* saved, next to a departure whose actual time was a float NaN
C16_Witness ==
    /\ pc = "exited" /\ Did("save_dep") /\ Did("save_arr")
    /\ df_arrival[1].arr_act = EmptyStr
    /\ cache_arr.text[1].arr_act = Quote(EmptyStr)
    /\ df_departure[1].dep_act = FloatNaN
    /\ cache_dep.text[1].dep_act = "null"

\* C17: a cache write that fails neither ends the run nor changes its exit
\* status, which stays the one the acquisitions and the notifications give;
\* after a failed departure write the arrival write is still attempted.
C17_WriteFailureNotFatal ==
    /\ (pc = "save_arr" /\ Did("save_dep_failed")) => exit_code = <<>>
    /\ (pc = "exited" /\ Did("save_dep_failed") /\ has_arrival_data) =>
           Did("save_arr") \/ Did("save_arr_failed")
    /\ (pc = "exited" /\ (Did("save_dep_failed") \/ Did("save_arr_failed"))) =>
           /\ exit_code = <<ExitSuccess>>
           /\ ~has_changes_overall \/ AnyNotificationSucceeded

\* the departure write failed after the file was opened, the arrival write
\* went through and the run ended with status 0
C17_Witness ==
    /\ pc = "exited" /\ exit_code = <<ExitSuccess>>
    /\ Did("save_dep_failed") /\ cache_dep = FileCorrupt
    /\ Did("save_arr") /\ cache_arr = FileOf(JsonDump(CleanedData(df_arrival)))

\* C18: without the webhook configuration the run exits with status 1 before
\* anything is acquired, read, notified or written, and both cache files
\* stay as they are.
C18_NoWebhookExitsFirst ==
    /\ []((pc = "exited" /\ ~webhook_url) =>
              /\ exit_code = <<ExitFailure>>
              /\ events = <<>> /\ notified = <<>>
              /\ df_departure = <<>> /\ df_arrival = <<>>
              /\ previous_data_departure = PyNone /\ previous_data_arrival = PyNone)
    /\ [][~webhook_url => (cache_dep' = cache_dep /\ cache_arr' = cache_arr)]_vars

\* a run without the webhook has ended; the unreadable departure file is
\* still there
C18_Witness ==
    /\ pc = "exited" /\ ~webhook_url
    /\ exit_code = <<ExitFailure>>
    /\ cache_dep = FileCorrupt /\ cache_arr = FileMissing

\* C19: with previous present, has_changes is true exactly when some current
\* record has a flight id that no previous record has, or a time change was
\* found, that is a record tagged time change is among the changed records
\* (for snapshots without repeated keys: some key of both snapshots has a
\* differing normalized time); otherwise the result is false with the
\* no-change summary and no changed record.
C19_HasChangesIffNewOrTimeChange ==
    Compared =>
        LET NewIdExists ==
                \E i \in DOMAIN current : ClaimId(current[i]) \notin IdsOf(previous.list)
        IN  /\ report.has_changes <=>
                   \/ NewIdExists
                   \/ \E m \in DOMAIN report.changed : IsTimeChange(report.changed[m])
            /\ (UniqueKeys(previous.list) /\ UniqueKeys(current)) =>
                   (report.has_changes <=>
                       \/ NewIdExists
                       \/ \E i \in DOMAIN current, j \in DOMAIN previous.list :
                              /\ ClaimKey(previous.list[j]) = ClaimKey(current[i])
                              /\ \/ ClaimSched(previous.list[j]) # ClaimSched(current[i])
                                 \/ ClaimAct(previous.list[j]) # ClaimAct(current[i]))
            /\ ~report.has_changes =>
                   report.summary = NoChangeSummary /\ report.changed = <<>>

\* a known flight on a date previous does not have, next to an unchanged
\* record: no new id, no time change, no change
C19_Witness ==
    /\ Compared /\ previous.list # <<>> /\ Len(current) = 2
    /\ \E i \in DOMAIN current :
           /\ ClaimId(current[i]) \in IdsOf(previous.list)
           /\ ClaimKey(current[i]) \notin KeysOf(previous.list)
    /\ \E i \in DOMAIN current : ClaimKey(current[i]) \in KeysOf(previous.list)
    /\ report = [has_changes |-> FALSE, summary |-> NoChangeSummary, changed |-> <<>>]

\* the last record of a list with the key
LastOf(list, key) ==
    list[CHOOSE i \in DOMAIN list :
             /\ ClaimKey(list[i]) = key
             /\ \A j \in DOMAIN list : j > i => ClaimKey(list[j]) # key]

\* C20: when a key occurs in several records of a snapshot the last record
\* of the key is the one used: a time change is reported for a key of both
\* snapshots exactly when the last current record of the key differs in a
\* normalized time from the last previous record of the key, the record
\* reported is that last current record, and the prior values it carries
\* are those of that last previous record.
C20_LastRecordOfKeyUsed ==
    Compared =>
        \A key \in KeysOf(current) \cap KeysOf(previous.list) :
            LET c == LastOf(current, key)
                p == LastOf(previous.list, key)
                tcs == SelectItems(report.changed,
                                   LAMBDA x : IsTimeChange(x) /\ ClaimKey(x) = key)
            IN  /\ tcs # <<>> <=>
                       \/ ClaimSched(c) # ClaimSched(p)
                       \/ ClaimAct(c) # ClaimAct(p)
                /\ \A m \in DOMAIN tcs :
                       /\ Untagged(tcs[m]) = c
                       /\ tcs[m]["prev_sched"] = RenderPrior(ClaimSched(p))
                       /\ tcs[m]["prev_act"] = RenderPrior(ClaimAct(p))

\* C21: in a result of compare_data no flight is reported twice: a flight id
\* with a record tagged new has no record tagged time change among the same
\* changed records, and no record carries both tags.
C21_NoDoubleReport ==
    cpc = "done" =>
        /\ \A m, n \in DOMAIN report.changed :
               (IsNew(report.changed[m]) /\ IsTimeChange(report.changed[n]))
               => ClaimId(report.changed[m]) # ClaimId(report.changed[n])
        /\ \A m \in DOMAIN report.changed :
               ~(IsNew(report.changed[m]) /\ IsTimeChange(report.changed[m]))
        /\ ~previous.is_none =>
               \A m \in DOMAIN report.changed :
                   IsNew(report.changed[m]) \/ IsTimeChange(report.changed[m])

\* one flight new, the other with a changed time: two records, two ids
C21_Witness ==
    /\ Compared /\ Len(report.changed) = 2
    /\ IsNew(report.changed[1]) /\ IsTimeChange(report.changed[2])
    /\ ClaimId(report.changed[1]) = Flight2 /\ ClaimId(report.changed[2]) = Flight1

\* record by record and field by field, the two lists are equal once every
\* form of an absent value, a missing field included, is taken for None
SameUpToAbsentForm(prev, curr) ==
    /\ Len(prev) = Len(curr)
    /\ \A i \in DOMAIN prev :
           \A k \in DOMAIN prev[i] \cup DOMAIN curr[i] :
               Norm(Get(prev[i], k)) = Norm(Get(curr[i], k))

\* C22: every equality test of compare_data is made on normalized values: when
\* previous and current differ only in the form an absent value takes in a
\* field, as after a save and a load of the cache, compare_data reports no
\* change.
C22_AbsentFormsCompareEqual ==
    (Compared /\ SameUpToAbsentForm(previous.list, current)) =>
        report = [has_changes |-> FALSE, summary |-> NoChangeSummary, changed |-> <<>>]

\* the steps of a run that touch the departures, and those for the arrivals
DepartureSteps == {"load_dep", "compare_dep", "notify_dep", "save_dep", "save_dep_failed"}
ArrivalSteps == {"load_arr", "compare_arr", "notify_arr", "save_arr", "save_arr_failed"}

\* C23: a direction whose acquisition came back empty, in a run where the
\* other direction yielded data, is skipped: its cache file is neither read
\* nor written and stays as it was, nothing is compared and nothing is
\* notified for it.
C23_EmptyDirectionSkipped ==
    /\ []((pc = "exited" /\ Did("acquire_dep") /\ df_departure = <<>> /\ df_arrival # <<>>) =>
              /\ Range(events) \cap DepartureSteps = {}
              /\ previous_data_departure = PyNone /\ rep_dep = NoReport
              /\ NotifiedFor("departure") = <<>>)
    /\ []((pc = "exited" /\ Did("acquire_dep") /\ df_arrival = <<>> /\ df_departure # <<>>) =>
              /\ Range(events) \cap ArrivalSteps = {}
              /\ previous_data_arrival = PyNone /\ rep_arr = NoReport
              /\ NotifiedFor("arrival") = <<>>)
    /\ [][/\ df_departure = <<>> => cache_dep' = cache_dep
          /\ df_arrival = <<>> => cache_arr' = cache_arr]_vars

\* no departures acquired: the departure file of an earlier run is still
\* there after a run that notified and saved the arrivals
C23_Witness ==
    /\ pc = "exited" /\ exit_code = <<ExitSuccess>>
    /\ df_departure = <<>> /\ df_arrival # <<>>
    /\ cache_dep.state = "ok"
    /\ Did("notify_arr") /\ Did("save_arr")

Acquisitions == {"acquire_dep", "acquire_arr"}
Loads == {"load_dep", "load_arr"}
Notifications == {"notify_dep", "notify_arr"}
DepartureWrites == {"save_dep", "save_dep_failed"}
ArrivalWrites == {"save_arr", "save_arr_failed"}

\* the place of a step in the order of hourly_check.main
Rank(event) ==
    CASE event = "acquire_dep" -> 1
      [] event = "acquire_arr" -> 2
      [] event = "load_dep" -> 3
      [] event = "compare_dep" -> 4
      [] event = "load_arr" -> 5
      [] event = "compare_arr" -> 6
      [] event = "notify_dep" -> 7
      [] event = "notify_arr" -> 8
      [] event \in DepartureWrites -> 9
      [] event \in ArrivalWrites -> 10

\* the log of the run goes up in rank: no step twice, none before an
\* earlier one
InOrder(log) ==
    \A i \in 1..(Len(log) - 1) : Rank(log[i]) < Rank(log[i + 1])

\* C25: within a run the steps come in a fixed order: both directions are
\* acquired before a cache is read, a direction's cache is read before its
\* comparison, every notification attempt, the departure one first, is over
\* before a cache file is written, and the departure cache is written before
\* the arrival cache.
C25_StepsInFixedOrder ==
    /\ InOrder(events)
    /\ Range(events) \cap Loads # {} => Acquisitions \subseteq Range(events)
    /\ Did("compare_dep") => Did("load_dep")
    /\ Did("compare_arr") => Did("load_arr")
    /\ (pc \in {"save_dep", "save_arr"} /\ rep_dep.has_changes /\ has_departure_data)
           => Did("notify_dep")
    /\ (pc \in {"save_dep", "save_arr"} /\ rep_arr.has_changes /\ has_arrival_data)
           => Did("notify_arr")

\* a whole run: every step of both directions took place
C25_Witness ==
    /\ pc = "exited"
    /\ events = <<"acquire_dep", "acquire_arr", "load_dep", "compare_dep",
                  "load_arr", "compare_arr", "notify_dep", "notify_arr",
                  "save_dep", "save_arr">>

\* a record of the departure table, of the arrival table
IsDepartureRecord(item) == "dep_sched" \in DOMAIN item /\ "arr_sched" \notin DOMAIN item
IsArrivalRecord(item) == "arr_sched" \in DOMAIN item /\ "dep_sched" \notin DOMAIN item
AllOf(list, Test(_)) == \A i \in DOMAIN list : Test(list[i])

\* what a file holds for a loader
HeldBy(file) == IF file.state = "ok" THEN Some(JsonLoad(file.text)) ELSE PyNone

\* the step the run made last
JustDid(event) == events # <<>> /\ events[Len(events)] = event

\* C26: the snapshots of the two directions never mix: the departure
\* comparison is made of what the departure cache held and of the departures
\* acquired, the arrival comparison of the arrival cache and the arrivals,
\* and a cache file holds records of its own direction only.
C26_DirectionsNeverMix ==
    /\ AllOf(df_departure, IsDepartureRecord) /\ AllOf(df_arrival, IsArrivalRecord)
    /\ AllOf(previous_data_departure.list, IsDepartureRecord)
    /\ AllOf(previous_data_arrival.list, IsArrivalRecord)
    /\ AllOf(rep_dep.changed, IsDepartureRecord) /\ AllOf(rep_arr.changed, IsArrivalRecord)
    /\ AllOf(cache_dep.text, IsDepartureRecord) /\ AllOf(cache_arr.text, IsArrivalRecord)
    /\ (pc \in {"check_arr", "notify_dep", "notify_arr", "save_dep"} /\ Did("load_dep")) =>
           previous_data_departure = HeldBy(cache_dep)
    /\ (pc \in {"notify_dep", "notify_arr", "save_dep", "save_arr"} /\ Did("load_arr")) =>
           previous_data_arrival = HeldBy(cache_arr)
    /\ JustDid("compare_dep") =>
           \E o \in CallOrders(previous_data_departure, df_departure) :
               rep_dep = compare_data(previous_data_departure, df_departure, o)
    /\ JustDid("compare_arr") =>
           \E o \in CallOrders(previous_data_arrival, df_arrival) :
               rep_arr = compare_data(previous_data_arrival, df_arrival, o)
    /\ \A n \in DOMAIN notified :
           IF notified[n].flight_type = "departure"
           THEN AllOf(notified[n].df, IsDepartureRecord)
           ELSE AllOf(notified[n].df, IsArrivalRecord)

\* both caches held a snapshot of their direction, both directions changed
\* against it and were written again
C26_Witness ==
    /\ pc = "exited"
    /\ ~previous_data_departure.is_none /\ previous_data_departure.list # <<>>
    /\ ~previous_data_arrival.is_none /\ previous_data_arrival.list # <<>>
    /\ rep_dep.changed # <<>> /\ rep_arr.changed # <<>>
    /\ Did("save_dep") /\ Did("save_arr")
    /\ cache_dep.text # <<>> /\ cache_arr.text # <<>>

\* C27: with previous present, an empty list included, has_changes is true
\* exactly when the changed records are not empty; has_changes = true with no
\* changed record comes only from the baseline branch with an empty current.
C27_HasChangesIffChangedRecords ==
    cpc = "done" =>
        /\ ~previous.is_none => (report.has_changes <=> report.changed # <<>>)
        /\ (report.has_changes /\ report.changed = <<>>) =>
               (previous.is_none /\ current = <<>>)
        /\ report.changed # <<>> => report.has_changes

\* against an empty previous list every current record is new
C27_Witness ==
    /\ Compared /\ previous.list = <<>> /\ Len(current) = 2
    /\ report.has_changes /\ Len(report.changed) = 2
    /\ \A m \in DOMAIN report.changed : IsNew(report.changed[m])

\* the flight ids of current that no previous record has, and the flight ids
\* of the records reported as time change
NewIds == {ClaimId(current[i]) : i \in DOMAIN current} \ IdsOf(previous.list)
TimeChangeIds ==
    {ClaimId(report.changed[m]) :
        m \in {n \in DOMAIN report.changed : IsTimeChange(report.changed[n])}}

\* C29: the summary tallies distinct flight ids, not records: the count of
\* the new part is the number of distinct flight ids absent from previous,
\* the count of the time-change part the number of distinct flight ids with
\* a time change; each is at most the number of changed records with that
\* tag; a part is there only when its count is positive, the new part first,
\* the parts joined by a comma.
C29_SummaryTalliesFlightIds ==
    Compared =>
        LET new_part == "new: " \o ToString(Cardinality(NewIds)) \o " items"
            tc_part == "time_change: " \o ToString(Cardinality(TimeChangeIds)) \o " items"
        IN  /\ report.summary =
                   IF NewIds # {} /\ TimeChangeIds # {} THEN new_part \o ", " \o tc_part
                   ELSE IF NewIds # {} THEN new_part
                   ELSE IF TimeChangeIds # {} THEN tc_part
                   ELSE NoChangeSummary
            /\ Cardinality(NewIds) <= Len(SelectItems(report.changed, IsNew))
            /\ Cardinality(TimeChangeIds) <= Len(SelectItems(report.changed, IsTimeChange))

\* one new flight on two dates: two records tagged new, a tally of one; next
\* to it nothing else
C29_Witness ==
    /\ Compared
    /\ Cardinality(NewIds) = 1
    /\ Len(SelectItems(report.changed, IsNew)) = 2
    /\ report.summary = "new: 1 items"

\* the run before this one was an hourly run whose notification attempts all
\* failed
LastFailed ==
    /\ last_run.kind = "hourly"
    /\ last_run.notified # <<>>
    /\ \A n \in DOMAIN last_run.notified : ~last_run.notified[n].ok

SameReport(r1, r2) ==
    /\ r1.has_changes = r2.has_changes
    /\ r1.summary = r2.summary
    /\ SameBag(r1.changed, r2.changed)

LastNotifiedFor(flight_type) ==
    SelectSeq(last_run.notified, LAMBDA n : n.flight_type = flight_type)

SeenSaves == Range(events) \cap (DepartureWrites \cup ArrivalWrites)

\* C24: a run whose notification attempts all failed exits with status 1
\* having tried each notification once and written no cache file; the run
\* after it, acquiring the same data, computes the same change report for
\* each direction and attempts the same notifications again.
C24_FailedRunIsRetriedByNextRun ==
    /\ (pc = "exited" /\ notified # <<>> /\ EveryNotificationFailed) =>
           /\ exit_code = <<ExitFailure>>
           /\ SeenSaves = {}
           /\ Len(NotifiedFor("departure")) <= 1 /\ Len(NotifiedFor("arrival")) <= 1
    /\ (/\ LastFailed /\ Did("acquire_dep")
        /\ pc \in {"notify_dep", "notify_arr", "save_dep", "save_arr", "exited"}) =>
           /\ df_departure = site[1] /\ df_arrival = site[2]
           /\ SameReport(rep_dep, last_run.rep_dep)
           /\ SameReport(rep_arr, last_run.rep_arr)
    /\ (/\ LastFailed /\ Did("acquire_dep")
        /\ pc \in {"save_dep", "save_arr", "exited"}) =>
           \A flight_type \in {"departure", "arrival"} :
               /\ Len(NotifiedFor(flight_type)) = Len(LastNotifiedFor(flight_type))
               /\ \A n \in DOMAIN NotifiedFor(flight_type) :
                      SameBag(NotifiedFor(flight_type)[n].df,
                              LastNotifiedFor(flight_type)[n].df)

\* a time change that the run before could not notify has been notified and
\* the caches written
C24_Witness ==
    /\ LastFailed /\ pc = "exited" /\ exit_code = <<ExitSuccess>>
    /\ \E m \in DOMAIN last_run.rep_dep.changed : IsTimeChange(last_run.rep_dep.changed[m])
    /\ NotifiedFor("departure") # <<>> /\ NotifiedFor("departure")[1].ok
    /\ Did("save_dep")

\* the run before this one was an hourly run that notified both directions,
\* got one of the two notifications through and wrote both cache files
LastPartly(failed_type) ==
    /\ last_run.kind = "hourly"
    /\ Len(last_run.notified) = 2
    /\ \A n \in DOMAIN last_run.notified :
           last_run.notified[n].ok <=> last_run.notified[n].flight_type # failed_type
    /\ {"save_dep", "save_arr"} \subseteq Range(last_run.events)

NoChangeReport == [has_changes |-> FALSE, summary |-> NoChangeSummary, changed |-> <<>>]

\* C28: the caches are kept or written for the run as a whole: when both
\* directions have changes and exactly one notification succeeds, both cache
\* files are written and the run exits 0, and the next run with the same
\* data no longer detects the changes of the direction whose notification
\* failed; when one direction has no change and the only notification, of
\* the other, fails, the unchanged direction's cache is not written either.
C28_PersistenceDecidedForTheRun ==
    /\ (/\ pc = "exited" /\ Len(notified) = 2
        /\ notified[1].ok # notified[2].ok) =>
           /\ exit_code = <<ExitSuccess>>
           /\ SnapshotsWritten
    /\ (/\ LastPartly("departure") /\ Did("compare_dep")
        /\ pc \in {"check_arr", "notify_dep", "notify_arr", "save_dep", "save_arr", "exited"})
       => rep_dep = NoChangeReport
    /\ (/\ LastPartly("arrival") /\ Did("compare_arr")
        /\ pc \in {"notify_dep", "notify_arr", "save_dep", "save_arr", "exited"})
       => rep_arr = NoChangeReport
    /\ (/\ pc = "exited" /\ Len(notified) = 1 /\ ~notified[1].ok
        /\ has_departure_data /\ has_arrival_data) =>
           SeenSaves = {}

\* the run before this one was a run of daily_notify.main
LastDaily == last_run.kind = "daily"

\* what the daily run sent and wrote: the whole snapshot of every direction
\* with data, once; a write for every direction with data when some
\* notification returned success, no write otherwise
DailySentAndWrote ==
    LastDaily =>
        /\ \A flight_type \in {"departure", "arrival"} :
               LET df == IF flight_type = "departure" THEN site[1] ELSE site[2]
                   sent == LastNotifiedFor(flight_type)
               IN  IF webhook_url /\ df # <<>>
                   THEN Len(sent) = 1 /\ sent[1].df = df
                   ELSE sent = <<>>
        /\ IF \E n \in DOMAIN last_run.notified : last_run.notified[n].ok
           THEN /\ site[1] # <<>> =>
                       Range(last_run.events) \cap DepartureWrites # {}
                /\ site[2] # <<>> =>
                       Range(last_run.events) \cap ArrivalWrites # {}
           ELSE last_run.events = <<>>
        /\ (pc = "start" /\ "save_dep" \in Range(last_run.events)) =>
               cache_dep = FileOf(JsonDump(CleanedData(site[1])))
        /\ (pc = "start" /\ "save_arr" \in Range(last_run.events)) =>
               cache_arr = FileOf(JsonDump(CleanedData(site[2])))

\* C30: daily_notify.main sends the whole snapshot of every direction with
\* data and writes the cache files only if some notification returned
\* success, then for every direction with data; when every notification
\* fails or nothing was acquired both cache files stay as they are; and an
\* hourly run that follows a daily run that wrote the caches and acquires
\* the same data reports no change.
C30_DailyRunThenHourlyNoChange ==
    /\ []DailySentAndWrote
    /\ [][(/\ pc = "start" /\ pc' = "start"
           /\ \A n \in DOMAIN last_run'.notified : ~last_run'.notified[n].ok)
          => (cache_dep' = cache_dep /\ cache_arr' = cache_arr)]_vars
    /\ []((LastDaily /\ "save_dep" \in Range(last_run.events) /\ Did("compare_dep")) =>
              rep_dep = NoChangeReport)
    /\ []((LastDaily /\ "save_arr" \in Range(last_run.events) /\ Did("compare_arr")) =>
              rep_arr = NoChangeReport)

====
